---- MODULE Spec2Model ----
(***************************************************************************)
(* TradingAlert: the multi-model ensemble (trading_ensemble.py) and the    *)
(* single-model agent (openai_agent.py).                                   *)
(*                                                                         *)
(* Text is modelled as a sequence of lines; a line is a record             *)
(*   [k |-> kind, f |-> field, v |-> value]                                *)
(* with kinds  star  "**f:** v",  plain  "f: v",  hdr  "### Notes",        *)
(* sep  "---",  prose (free text, v names the text),  json (an embedded    *)
(* {...} span, v names the object),  blank.                                *)
(* Weights are kept in hundredths (1.0 = 100), so that the weighted        *)
(* average is compared with its thresholds in exact integer arithmetic.    *)
(***************************************************************************)
EXTENDS Integers, Sequences, FiniteSets, TLC

VARIABLES
    openai_client,      \* self.openai_client is set (TRUE) or None (FALSE)
    anthropic_client,   \* self.anthropic_client is set (TRUE) or None (FALSE)
    models,             \* self.models, in insertion order
    context,            \* the context string built by _build_context
    phase,              \* position of get_ensemble_decision: idle, gathering, done
    ready,              \* the event loop's FIFO of tasks that have not run yet
    running,            \* the task that holds the (single) thread, 0 if none
    task,               \* per task: pending, calling, done
    task_context,       \* per task: the context argument it was created with
    outcome,            \* per task: what its backend call did
    results,            \* per task: what _get_single_model_decision returned
    final_decision,     \* what get_ensemble_decision returned
    agent_outcome,      \* what the backend did with get_agent_decision's call
    agent_result,       \* what get_agent_decision returned
    agent_context,      \* what build_agent_context gave get_agent_decision
    memory_file,        \* backtest_memory.json: missing, or the dict it holds
    bt_call,            \* the last call of process_backtest_data / get_backtest_stats
    bot_started_today,  \* MarketHoursManager.bot_started_today
    last_reset_date,    \* MarketHoursManager.last_reset_date
    mh_log,             \* the calls of check_market_hours so far, with what they returned
    last_market_state,  \* market_hours_monitor: the state seen by the previous iteration
    mon_log,            \* the iterations of market_hours_monitor so far
    prod_pc,            \* production_mode_loop: checking, waiting or running the app
    prod_check          \* the last is_market_open() of production_mode_loop

ensemble_vars == <<openai_client, anthropic_client, models, context, phase, ready,
                   running, task, task_context, outcome, results, final_decision>>

agent_vars == <<agent_outcome, agent_result, agent_context>>

backtest_vars == <<memory_file, bt_call>>

\* The state of the modules that the alert paths do not touch.
manager_vars == <<bot_started_today, last_reset_date, mh_log>>

launcher_vars == <<last_market_state, mon_log, prod_pc, prod_check>>

other_vars == <<backtest_vars, manager_vars, launcher_vars>>

alert_vars == <<ensemble_vars, agent_vars>>

vars == <<ensemble_vars, agent_vars, other_vars>>

(***************************************************************************)
(* Configuration: TradingEnsemble.__init__                                 *)
(***************************************************************************)
W_gpt_4o == 100
W_gpt_4_turbo == 90
W_claude_3_5_sonnet == 95

ModelsConfig ==
    << [name |-> "gpt-4o", weight |-> W_gpt_4o, client |-> "openai"],
       [name |-> "gpt-4-turbo", weight |-> W_gpt_4_turbo, client |-> "openai"],
       [name |-> "claude-3-5-sonnet-20241022", weight |-> W_claude_3_5_sonnet,
        client |-> "anthropic"] >>

\* The same three backends with equal weights 1.0 (the spec's scenarios).
EqualWeightsConfig ==
    [i \in 1..Len(ModelsConfig) |->
        [ModelsConfig[i] EXCEPT !.weight = W_gpt_4o]]

Tasks == 1..Len(ModelsConfig)

\* self.models[name]["weight"]
weight_of(cfg, name) ==
    LET i == CHOOSE i \in 1..Len(cfg) : cfg[i].name = name IN cfg[i].weight

(***************************************************************************)
(* Text                                                                    *)
(***************************************************************************)
Star(f, v) == [k |-> "star", f |-> f, v |-> v]
Plain(f, v) == [k |-> "plain", f |-> f, v |-> v]
NotesHdr == [k |-> "hdr", f |-> "### Notes", v |-> ""]
Sep == [k |-> "sep", f |-> "---", v |-> ""]
Prose(t) == [k |-> "prose", f |-> "", v |-> t]
Json(id) == [k |-> "json", f |-> "", v |-> id]
Blank == [k |-> "blank", f |-> "", v |-> ""]

\* A response value: a string (its lines) or None.
Text(lines) == [none |-> FALSE, lines |-> lines]
NoneText == [none |-> TRUE, lines |-> <<>>]

\* Number of characters of a line.  The prose texts: "brief" and "essay"
\* are explanations, "tiny" is a few words, "see notes" mentions the word
\* notes, "bullish" is a sentence that says to go long with high confidence.
LineLen(l) ==
    CASE l.k = "blank" -> 0
      [] l.k = "sep" -> 3
      [] l.k = "hdr" -> 9
      [] l.k = "prose" /\ l.v = "essay" -> 450
      [] l.k = "prose" /\ l.v = "tiny" -> 8
      [] l.k = "prose" -> 60
      [] l.k = "json" -> 80
      [] OTHER -> 20

RECURSIVE SumLen(_)
SumLen(lines) ==
    IF lines = <<>> THEN 0 ELSE LineLen(Head(lines)) + SumLen(Tail(lines))

\* str.strip() on a multi-line text: leading and trailing blank lines go.
RECURSIVE LStrip(_)
LStrip(lines) ==
    IF lines # <<>> /\ Head(lines).k = "blank" THEN LStrip(Tail(lines)) ELSE lines

RECURSIVE RStrip(_)
RStrip(lines) ==
    IF lines # <<>> /\ lines[Len(lines)].k = "blank"
    THEN RStrip(SubSeq(lines, 1, Len(lines) - 1))
    ELSE lines

Strip(lines) == RStrip(LStrip(lines))

NonBlank(lines) == SelectSeq(lines, LAMBDA l : l.k # "blank")

\* Length of the lines joined by single spaces (re.sub(r'\s+', ' ', ...)).
JoinedLen(lines) ==
    LET nb == NonBlank(lines)
    IN IF nb = <<>> THEN 0 ELSE SumLen(nb) + Len(nb) - 1

(***************************************************************************)
(* TradingEnsemble._parse_decision                                         *)
(***************************************************************************)
\* str.upper() on the values that occur in replies.
Upper(v) ==
    CASE v = "long" -> "LONG"
      [] v = "short" -> "SHORT"
      [] v = "ignore" -> "IGNORE"
      [] v = "low" -> "LOW"
      [] v = "medium" -> "MEDIUM"
      [] v = "high" -> "HIGH"
      [] OTHER -> v

\* re.IGNORECASE on the label of a line.
Spellings(f) ==
    CASE f = "Direction" -> {"Direction", "DIRECTION", "direction"}
      [] f = "Decision" -> {"Decision", "DECISION", "decision"}
      [] f = "Confidence" -> {"Confidence", "CONFIDENCE", "confidence"}
      [] OTHER -> {f}

\* re.search(pattern, response, re.IGNORECASE): the value captured by the
\* leftmost line of kind k labelled f whose value is one of `valid`; "" when
\* the pattern matches nowhere.
Search(lines, k, f, valid) ==
    LET hit(i) == /\ lines[i].k = k
                  /\ lines[i].f \in Spellings(f)
                  /\ Upper(lines[i].v) \in valid
        hits == {i \in 1..Len(lines) : hit(i)}
    IN IF hits = {} THEN ""
       ELSE Upper(lines[CHOOSE i \in hits : \A j \in hits : i <= j].v)

\* The first pattern of the list that matches decides; `default` otherwise.
RECURSIVE FirstPattern(_, _, _, _)
FirstPattern(lines, patterns, valid, default) ==
    IF patterns = <<>> THEN default
    ELSE LET m == Search(lines, Head(patterns)[1], Head(patterns)[2], valid)
         IN IF m # "" THEN m
            ELSE FirstPattern(lines, Tail(patterns), valid, default)

DirectionPatterns ==
    << <<"star", "Direction">>, <<"plain", "Direction">>, <<"plain", "Direction">>,
       <<"plain", "Decision">>, <<"star", "Decision">> >>

ConfidencePatterns ==
    << <<"star", "Confidence">>, <<"plain", "Confidence">>, <<"plain", "Confidence">> >>

Directions == {"LONG", "SHORT", "IGNORE"}
Confidences == {"LOW", "MEDIUM", "HIGH"}

ReasoningCap == 400

\* A reasoning text: where it comes from, the error message it embeds (if
\* any), the lines it is made of and its length in characters.
Reasoning(src, err, lines, len) ==
    [src |-> src, err |-> err, lines |-> lines, len |-> len]

\* Lines 222-225: whitespace is collapsed and the text cut to 400 characters.
CleanUp(src, lines, rawlen) ==
    Reasoning(src, "", lines, IF rawlen > ReasoningCap THEN ReasoningCap ELSE rawlen)

IsCaptureHeader(l) ==
    l.k \in {"star", "plain"} /\ l.f \in {"Notes", "Reasoning", "Analysis", "###"}

\* Lines 195-225, on the stripped response.
extract_reasoning(lines) ==
    LET n == Len(lines)
        first(S) == CHOOSE i \in S : \A j \in S : i <= j
        rest(i) == NonBlank(SubSeq(lines, i + 1, n))
        hdrs == {i \in 1..(n - 1) : lines[i].k = "hdr"}
        seps == {i \in 1..(n - 1) : lines[i].k = "sep"}
        caps == {i \in 1..n : IsCaptureHeader(lines[i])}
        captured ==
            IF caps = {} THEN <<>>
            ELSE SelectSeq(rest(first(caps)), LAMBDA l : ~IsCaptureHeader(l))
    IN IF hdrs # {}
       THEN CleanUp("notes", rest(first(hdrs)), JoinedLen(rest(first(hdrs))))
       ELSE IF seps # {}
       THEN CleanUp("separator", rest(first(seps)), JoinedLen(rest(first(seps))))
       ELSE IF captured # <<>>
       THEN CleanUp("fallback", captured, JoinedLen(captured))
       ELSE CleanUp("default", <<>>, 21)

\* A variant that does not mark the result as an error.
ErrorResult_unmarked(model, prefix, err, raw) ==
    [model |-> model,
     direction |-> "IGNORE",
     confidence |-> "LOW",
     reasoning |-> Reasoning(prefix, err, <<>>, 0),
     raw_response |-> raw,
     error |-> FALSE]

\* An error result: what the except clauses return.
ErrorResult(model, prefix, err, raw) ==
    [model |-> model,
     direction |-> "IGNORE",
     confidence |-> "LOW",
     reasoning |-> Reasoning(prefix, err, <<>>, 0),
     raw_response |-> raw,
     error |-> TRUE]

\* A variant that treats a reply without a direction label as a parse error.
parse_decision_strict(response, model) ==
    IF response.none
    THEN ErrorResult(model, "Parse error: ", "AttributeError", response)
    ELSE LET lines == Strip(response.lines)
         IN IF FirstPattern(lines, DirectionPatterns, Directions, "") = ""
            THEN ErrorResult(model, "Parse error: ", "no direction", response)
            ELSE [model |-> model,
                  direction |-> FirstPattern(lines, DirectionPatterns, Directions, "IGNORE"),
                  confidence |-> FirstPattern(lines, ConfidencePatterns, Confidences, "LOW"),
                  reasoning |-> extract_reasoning(lines),
                  raw_response |-> Text(lines),
                  error |-> FALSE]

parse_decision(response, model) ==
    IF response.none
    THEN \* response.strip() raises AttributeError, caught at line 237
         ErrorResult(model, "Parse error: ", "AttributeError", response)
    ELSE LET lines == Strip(response.lines)
         IN [model |-> model,
             direction |-> FirstPattern(lines, DirectionPatterns, Directions, "IGNORE"),
             confidence |-> FirstPattern(lines, ConfidencePatterns, Confidences, "LOW"),
             reasoning |-> extract_reasoning(lines),
             raw_response |-> Text(lines),
             error |-> FALSE]

(***************************************************************************)
(* The backend calls                                                       *)
(***************************************************************************)
\* A Python call either returns a value or raises an exception.
NoValue == [pending |-> TRUE]
Return(v) == [raised |-> FALSE, exc |-> "", value |-> v]
Raise(e) == [raised |-> TRUE, exc |-> e, value |-> NoValue]

\* What a backend does with a request.
ApiError(e) == [kind |-> "api_error", err |-> e, lines |-> <<>>]
NoChoices == [kind |-> "no_choices", err |-> "IndexError", lines |-> <<>>]
NoContent == [kind |-> "no_content", err |-> "AttributeError", lines |-> <<>>]
Reply(lines) == [kind |-> "reply", err |-> "", lines |-> lines]
NotCalled == [kind |-> "not_called", err |-> "", lines |-> <<>>]
NoClient(e) == [kind |-> "no_client", err |-> e, lines |-> <<>>]

ApiErrors == {"APITimeoutError", "AuthenticationError", "RateLimitError"}

\* _get_openai_decision and _get_anthropic_decision: the same code on two clients.
get_backend_decision(model, o) ==
    CASE o.kind = "api_error" -> Raise(o.err)
      [] o.kind = "no_choices" -> Raise(o.err)
      [] o.kind = "no_content" -> Return(parse_decision(NoneText, model))
      [] OTHER -> Return(parse_decision(Text(o.lines), model))

get_openai_decision(model, o) == get_backend_decision(model, o)

get_anthropic_decision(model, o) == get_backend_decision(model, o)

\* The client a model is configured with is initialised.
client_available(cfg, oc, ac) ==
    IF cfg.client = "openai" THEN oc ELSE ac

\* _get_single_model_decision, lines 81-90: the body of the try.
single_model_try(cfg, oc, ac, o) ==
    IF cfg.client = "openai"
    THEN IF ~oc THEN Raise("OpenAI client not initialized")
         ELSE get_openai_decision(cfg.name, o)
    ELSE IF ~ac THEN Raise("Anthropic client not initialized")
         ELSE get_anthropic_decision(cfg.name, o)

\* A variant without the except clause: the exception leaves the coroutine.
get_single_model_decision_uncaught(cfg, oc, ac, o) == single_model_try(cfg, oc, ac, o)

\* _get_single_model_decision: the except clause turns an exception into an
\* error result.
get_single_model_decision(cfg, oc, ac, o) ==
    LET r == single_model_try(cfg, oc, ac, o)
    IN IF r.raised
       THEN Return(ErrorResult(cfg.name, "Error: ", r.exc, Text(<<>>)))
       ELSE r

\* asyncio.gather(..., return_exceptions=True): a task's exception becomes
\* its result.
gathered(r) ==
    IF r.raised THEN [exception |-> r.exc] ELSE r.value

(***************************************************************************)
(* TradingEnsemble._analyze_consensus                                      *)
(***************************************************************************)
\* isinstance(r, dict)
IsDict(r) == "error" \in DOMAIN r

\* A variant that keeps the failed results.
valid_results_all(rs) == SelectSeq(rs, LAMBDA r : IsDict(r))

\* Line 267
valid_results(rs) == SelectSeq(rs, LAMBDA r : IsDict(r) /\ ~r.error)

\* A variant whose table lacks HIGH, which then scores 0.
confidence_score_without_high(c) ==
    CASE c = "LOW" -> 1 [] c = "MEDIUM" -> 2 [] OTHER -> 0

\* confidence_scores.get(confidence, 0)
confidence_score(c) ==
    CASE c = "LOW" -> 1 [] c = "MEDIUM" -> 2 [] c = "HIGH" -> 3 [] OTHER -> 0

\* A variant that enters a direction seen for the first time with count 0.
count_direction_from_zero(counts, d) ==
    IF \E k \in 1..Len(counts) : counts[k].dir = d
    THEN [k \in 1..Len(counts) |->
            IF counts[k].dir = d
            THEN [dir |-> d, count |-> counts[k].count + 1]
            ELSE counts[k]]
    ELSE Append(counts, [dir |-> d, count |-> 0])

\* Line 293, for one result: direction_counts is a dict, kept here as the
\* sequence of its items in insertion order.
count_direction(counts, d) ==
    IF \E k \in 1..Len(counts) : counts[k].dir = d
    THEN [k \in 1..Len(counts) |->
            IF counts[k].dir = d
            THEN [dir |-> d, count |-> counts[k].count + 1]
            ELSE counts[k]]
    ELSE Append(counts, [dir |-> d, count |-> 1])

\* The loop of lines 288-297 over the first n valid results: line 293,
RECURSIVE direction_counts(_, _)
direction_counts(valid, n) ==
    IF n = 0 THEN <<>>
    ELSE count_direction(direction_counts(valid, n - 1), valid[n].direction)

\* line 294,
RECURSIVE total_weighted_confidence(_, _, _)
total_weighted_confidence(cfg, valid, n) ==
    IF n = 0 THEN 0
    ELSE total_weighted_confidence(cfg, valid, n - 1)
         + confidence_score(valid[n].confidence) * weight_of(cfg, valid[n].model)

\* A variant that divides by the number of valid results (each counted 1.0).
total_weights_unweighted(cfg, valid, n) == n * 100

\* and line 295.
RECURSIVE total_weights(_, _, _)
total_weights(cfg, valid, n) ==
    IF n = 0 THEN 0
    ELSE total_weights(cfg, valid, n - 1) + weight_of(cfg, valid[n].model)

\* A variant that returns the last of the items with the greatest count.
max_by_count_last(items) ==
    LET k == CHOOSE k \in 1..Len(items) :
                /\ \A j \in 1..Len(items) : items[j].count <= items[k].count
                /\ \A j \in (k + 1)..Len(items) : items[j].count < items[k].count
    IN items[k].dir

\* Line 300: max(direction_counts.items(), key=lambda x: x[1])[0] returns the
\* first of the items with the greatest count.
max_by_count(items) ==
    LET k == CHOOSE k \in 1..Len(items) :
                /\ \A j \in 1..Len(items) : items[j].count <= items[k].count
                /\ \A j \in 1..(k - 1) : items[j].count < items[k].count
    IN items[k].dir

\* A variant that compares the total, not the average, with the thresholds.
confidence_label_undivided(twc, tw) ==
    IF 2 * twc >= 5 * 100 THEN "HIGH"
    ELSE IF 2 * twc >= 3 * 100 THEN "MEDIUM"
    ELSE "LOW"

\* Lines 303-310: the average score twc / tw (0 when tw = 0) against the
\* thresholds 2.5 and 1.5.
confidence_label(twc, tw) ==
    IF tw > 0 /\ 2 * twc >= 5 * tw THEN "HIGH"
    ELSE IF tw > 0 /\ 2 * twc >= 3 * tw THEN "MEDIUM"
    ELSE "LOW"

\* Lines 270-279
all_failed_decision ==
    [direction |-> "IGNORE",
     confidence |-> "LOW",
     reasoning |-> [text |-> "All models failed or had errors", analyzed |-> 0],
     model_details |-> <<>>,
     consensus_breakdown |-> <<>>,
     success |-> FALSE]

\* A variant whose loop runs over every result, failed ones included.
analyze_consensus_counting_failed(cfg, rs) ==
    LET valid == valid_results(rs)
        every == SelectSeq(rs, LAMBDA r : IsDict(r))
        n == Len(every)
    IN IF valid = <<>> THEN all_failed_decision
       ELSE [direction |-> max_by_count(direction_counts(every, n)),
             confidence |-> confidence_label(total_weighted_confidence(cfg, every, n),
                                             total_weights(cfg, every, n)),
             reasoning |-> [text |-> "ENSEMBLE CONSENSUS", analyzed |-> Len(valid)],
             model_details |-> valid,
             consensus_breakdown |-> direction_counts(every, n),
             success |-> TRUE]

\* A variant that raises the exception object of a task again instead of
\* dropping it (a gather without return_exceptions).
analyze_consensus_reraising(cfg, rs) ==
    LET valid == valid_results(rs)
        n == Len(valid)
        excs == {i \in 1..Len(rs) : ~IsDict(rs[i])}
    IN IF excs # {} THEN rs[CHOOSE i \in excs : \A j \in excs : i <= j]
       ELSE IF valid = <<>> THEN all_failed_decision
       ELSE [direction |-> max_by_count(direction_counts(valid, n)),
             confidence |-> confidence_label(total_weighted_confidence(cfg, valid, n),
                                             total_weights(cfg, valid, n)),
             reasoning |-> [text |-> "ENSEMBLE CONSENSUS", analyzed |-> n],
             model_details |-> valid,
             consensus_breakdown |-> direction_counts(valid, n),
             success |-> TRUE]

analyze_consensus(cfg, rs) ==
    LET valid == valid_results(rs)
        n == Len(valid)
    IN IF valid = <<>> THEN all_failed_decision
       ELSE [direction |-> max_by_count(direction_counts(valid, n)),
             confidence |-> confidence_label(total_weighted_confidence(cfg, valid, n),
                                             total_weights(cfg, valid, n)),
             reasoning |-> [text |-> "ENSEMBLE CONSENSUS", analyzed |-> n],
             model_details |-> valid,
             consensus_breakdown |-> direction_counts(valid, n),
             success |-> TRUE]

(***************************************************************************)
(* TradingEnsemble._build_context                                          *)
(***************************************************************************)
\* a or b or c, on strings: the first that is not empty ("" stands for a
\* missing or empty field).
Or3(a, b, c) == IF a # "" THEN a ELSE IF b # "" THEN b ELSE c

build_context(alert) ==
    [ticker |-> Or3(alert.ticker, alert.symbol, "UNKNOWN"),
     strategy |-> Or3(alert.strategy, alert.pattern, "UNKNOWN"),
     price |-> Or3(alert.price, alert.close, "N/A"),
     additional_data |->
        IF alert.additional_data # "" THEN alert.additional_data
        ELSE "No additional data"]

NoContext == [ticker |-> "", strategy |-> "", price |-> "", additional_data |-> ""]

Alerts ==
    { [ticker |-> "AMD", symbol |-> "", strategy |-> "3-1_breakout_long", pattern |-> "",
       price |-> "101.5", close |-> "", additional_data |-> "rsi"],
      [ticker |-> "", symbol |-> "QQQ", strategy |-> "", pattern |-> "amd_breakout",
       price |-> "", close |-> "", additional_data |-> ""] }

(***************************************************************************)
(* The replies the backends give                                           *)
(***************************************************************************)
\* The format the system prompt asks for.
FormatReply(d, c) ==
    << Star("Direction", d), Star("Confidence", c), Sep, NotesHdr, Prose("brief") >>

Replies ==
    {FormatReply(d, c) : d \in Directions, c \in Confidences}
    \cup { << Prose("brief") >>,
           << Prose("bullish") >>,
           << Blank, Plain("Direction", "long"), Plain("confidence", "high"),
              Plain("Reasoning", ""), Prose("essay"), Blank >>,
           << Star("Direction", "BUY"), Star("Confidence", "VERY HIGH"),
              Plain("Decision", "SHORT"), NotesHdr >> }

Outcomes ==
    {ApiError(e) : e \in ApiErrors}
    \cup {NoChoices, NoContent}
    \cup {Reply(r) : r \in Replies}

(***************************************************************************)
(* helpers.py and backtest_processor.py: the backtest memory               *)
(***************************************************************************)
\* An optional number: <<>> is None, <<x>> is the number x (in hundredths).
None == <<>>
Some(x) == <<x>>

MaxRows == 2

\* str.upper() and str.strip() on the tickers and patterns of the model.
UpperTicker(t) ==
    CASE t = "amd" -> "AMD"
      [] t = "spy" -> "SPY"
      [] OTHER -> t

StripPattern(p) ==
    CASE p = " 3-1_breakout_long " -> "3-1_breakout_long"
      [] p = "  " -> ""
      [] OTHER -> p

\* helpers.py, _to_float: float(str(x).replace("%", "")), None when it raises.
to_float(x) ==
    CASE x = "12.5" -> Some(1250)
      [] x = "-3%" -> Some(-300)
      [] x = "0" -> Some(0)
      [] x = "3.0" -> Some(300)
      [] x = "1.5" -> Some(150)
      [] x = "-1.5" -> Some(-150)
      [] x = "45.0" -> Some(4500)
      [] OTHER -> None

\* round(n / d, 0) on integers; no quotient of the model falls on a half.
RoundDiv(n, d) == (2 * n + d) \div (2 * d)

\* config.py, BACKTEST_STATS: the static priors of AMD.
BACKTEST_STATS ==
    [k \in {<<"AMD", "3-1_breakout_long">>, <<"AMD", "3-1_breakout_short">>} |->
        IF k[2] = "3-1_breakout_long"
        THEN [total_trades |-> 249, winrate_pct |-> 4538, avg_rr |-> Some(285)]
        ELSE [total_trades |-> 207, winrate_pct |-> 3671, avg_rr |-> Some(264)]]

\* backtest_memory.json does not exist until the first upload writes it.
NoFile == [missing |-> TRUE]

\* helpers.py, load_backtest_memory: {} when there is no file, and {} when
\* opening or decoding it raises (lines 32-33).
load_backtest_memory(file, readable) ==
    IF file = NoFile THEN <<>>
    ELSE IF readable THEN file
    ELSE <<>>

\* helpers.py, save_backtest_memory: the file holds the dict, unless writing
\* raises, which lines 39-40 report on the console only.
save_backtest_memory(file, mem, writable) == IF writable THEN mem ELSE file

NoStats == [none |-> TRUE]

\* helpers.py, get_backtest_stats: dynamic memory first, then the static prior.
get_backtest_stats(file, readable, ticker, pattern) ==
    LET mem == load_backtest_memory(file, readable)
        key == <<UpperTicker(ticker), StripPattern(pattern)>>
    IN  IF key \in DOMAIN mem THEN mem[key]
        ELSE IF key \in DOMAIN BACKTEST_STATS
        THEN [ticker |-> key[1], pattern |-> key[2],
              total_trades |-> BACKTEST_STATS[key].total_trades,
              winrate_pct |-> BACKTEST_STATS[key].winrate_pct,
              avg_rr |-> BACKTEST_STATS[key].avg_rr]
        ELSE NoStats

\* app.py, get_backtest_stats: the same lookup under the names trades and winrate.
app_get_backtest_stats(file, readable, ticker, pattern) ==
    LET mem == load_backtest_memory(file, readable)
        key == <<UpperTicker(ticker), StripPattern(pattern)>>
    IN  IF key \in DOMAIN mem
        THEN [ticker |-> key[1], pattern |-> key[2],
              trades |-> mem[key].total_trades,
              winrate |-> mem[key].winrate_pct,
              avg_rr |-> mem[key].avg_rr]
        ELSE IF key \in DOMAIN BACKTEST_STATS
        THEN [ticker |-> key[1], pattern |-> key[2],
              trades |-> BACKTEST_STATS[key].total_trades,
              winrate |-> BACKTEST_STATS[key].winrate_pct,
              avg_rr |-> BACKTEST_STATS[key].avg_rr]
        ELSE NoStats

\* A row of an export: the cells the processor reads, "" where a cell is absent.
Row(t, p, usd, pct, up, dd) ==
    [ticker |-> t, pattern |-> p, pl_usd |-> usd, pl_pct |-> pct, runup |-> up, drawdown |-> dd]

Rows ==
    { Row("amd", "3-1_breakout_long", "12.5", "", "3.0", "-1.5"),
      Row("AMD", " 3-1_breakout_long ", "", "-3%", "1.5", "-1.5"),
      Row("", "  ", "abc", "12.5", "45.0", "-1.5") }

RowSeqs == UNION {[1..n -> Rows] : n \in 0..MaxRows}

SingleRows == {rs \in RowSeqs : Len(rs) = 1}

\* backtest_processor.py, lines 42-44; the pair stands for "TICKER:pattern".
row_key(r, ticker_hint) ==
    << UpperTicker(Or3(r.ticker, ticker_hint, "UNKNOWN")),
       IF StripPattern(r.pattern) = "" THEN "unknown" ELSE StripPattern(r.pattern) >>

\* Lines 60-64
row_pl(r) == to_float(IF r.pl_usd # "" THEN r.pl_usd ELSE r.pl_pct)

\* Lines 73-79: the reward-to-risk ratio of a row, when it counts.
row_rr(r) ==
    LET runup == to_float(r.runup)
        drawdown == to_float(r.drawdown)
    IN  IF runup # None /\ drawdown # None /\ runup[1] > 0 /\ drawdown[1] # 0
        THEN LET rr == (runup[1] * 100) \div
                           (IF drawdown[1] < 0 THEN 0 - drawdown[1] ELSE drawdown[1])
             IN  IF 0 < rr /\ rr < 2000 THEN Some(rr) ELSE None
        ELSE None

\* Lines 56-79: one row added to its entry.
add_row(s, r) ==
    LET pl == row_pl(r)
        rr == row_rr(r)
    IN  [s EXCEPT !.total = @ + 1,
                  !.wins = IF pl # None /\ pl[1] > 0 THEN @ + 1 ELSE @,
                  !.losses = IF pl # None /\ pl[1] < 0 THEN @ + 1 ELSE @,
                  !.rr_values = IF rr # None THEN Append(@, rr[1]) ELSE @]

\* backtest_processor.py, process_trades: the summary dict, in insertion order.
RECURSIVE process_rows(_, _, _, _)
process_rows(rows, ticker_hint, i, summary) ==
    IF i > Len(rows) THEN summary
    ELSE LET key == row_key(rows[i], ticker_hint)
             at == {j \in 1..Len(summary) : summary[j].key = key}
         IN  IF at = {}
             THEN process_rows(rows, ticker_hint, i + 1,
                               Append(summary,
                                      add_row([key |-> key, total |-> 0, wins |-> 0,
                                               losses |-> 0, rr_values |-> <<>>],
                                              rows[i])))
             ELSE LET j == CHOOSE j \in at : TRUE
                  IN  process_rows(rows, ticker_hint, i + 1,
                                   [summary EXCEPT ![j] = add_row(@, rows[i])])

RECURSIVE SumSeq(_)
SumSeq(q) == IF q = <<>> THEN 0 ELSE Head(q) + SumSeq(Tail(q))

\* backtest_processor.py, lines 89-104: the record of one key.
finalize_entry(s) ==
    [ticker |-> s.key[1], pattern |-> s.key[2],
     total_trades |-> s.total,
     wins |-> s.wins, losses |-> s.losses,
     winrate_pct |-> RoundDiv(s.wins * 10000, s.total),
     avg_rr |-> IF s.rr_values = <<>> THEN None
                ELSE Some(RoundDiv(SumSeq(s.rr_values), Len(s.rr_values)))]

\* backtest_processor.py, finalize_summary: load, write every key, save.
RECURSIVE finalize_loop(_, _, _, _)
finalize_loop(summary, i, mem, out) ==
    IF i > Len(summary) THEN [out |-> out, memory |-> mem]
    ELSE LET result == finalize_entry(summary[i])
         IN  finalize_loop(summary, i + 1,
                           (summary[i].key :> result) @@ mem,
                           Append(out, result))

finalize_summary(file, io, summary) ==
    LET done == finalize_loop(summary, 1, load_backtest_memory(file, io.readable), <<>>)
    IN  [ret |-> [out |-> done.out, err |-> "none"],
         file |-> save_backtest_memory(file, done.memory, io.writable)]

\* backtest_processor.py, process_trades
process_trades(file, io, rows, ticker_hint) ==
    finalize_summary(file, io, process_rows(rows, ticker_hint, 1, <<>>))

\* The bodies of an upload: what the content type says and what the bytes hold.
Body(ctype, holds, rows) == [content_type |-> ctype, holds |-> holds, rows |-> rows]

Bodies ==
    { Body("application/json", "garbage", <<>>),
      Body("application/json", "scalar", <<>>),
      Body("application/json", "object", <<>>),
      Body("application/json", "numbers", <<>>),
      Body("text/csv", "garbage", <<>>) }
    \cup {Body("application/json", "list", rs) : rs \in RowSeqs}
    \cup {Body("application/json", "trades", rs) : rs \in SingleRows}
    \cup {Body("text/csv", "csv", rs) : rs \in SingleRows \cup {<<>>}}

Failed(file, err) == [ret |-> [out |-> <<>>, err |-> err], file |-> file]

\* backtest_processor.py, process_backtest_data
process_backtest_data(file, io, body, ticker_hint) ==
    IF body.content_type = "application/json"
    THEN IF body.holds = "garbage" THEN Failed(file, "bad_json")                 \* line 21
         ELSE IF body.holds \notin {"list", "trades", "numbers"}
         THEN Failed(file, "invalid_json_structure")                             \* line 18
         ELSE IF body.holds = "numbers"                 \* a list of numbers: r.get raises (42)
         THEN [ret |-> [out |-> <<>>, err |-> "none", exception |-> "AttributeError"],
               file |-> file]
         ELSE IF body.rows = <<>> THEN Failed(file, "no_rows")                   \* line 33
         ELSE process_trades(file, io, body.rows, ticker_hint)
    ELSE IF body.holds = "garbage" THEN Failed(file, "bad_csv")                  \* line 30
         ELSE IF body.rows = <<>> THEN Failed(file, "no_rows")
         ELSE process_trades(file, io, body.rows, ticker_hint)

InitBacktest ==
    /\ memory_file = NoFile
    /\ bt_call = [op |-> "none"]

\* Whether the memory file can be read and written during one call.
FileAccess == [readable : BOOLEAN, writable : BOOLEAN]

\* The uploads of the model: every body without a hint, and the one-row
\* lists also with a hint and under each failure of the file.
UploadCalls ==
    {[body |-> body, ticker_hint |-> "", io |-> [readable |-> TRUE, writable |-> TRUE]] :
        body \in Bodies}
    \cup {[body |-> Body("application/json", "list", rs), ticker_hint |-> hint, io |-> io] :
            rs \in SingleRows, hint \in {"", "spy"}, io \in FileAccess}

\* One upload handled by process_backtest_data.
Upload(body, ticker_hint, io) ==
    LET done == process_backtest_data(memory_file, io, body, ticker_hint)
    IN  /\ memory_file' = done.file
        /\ bt_call' = [op |-> "upload", body |-> body, ticker_hint |-> ticker_hint,
                       io |-> io, ret |-> done.ret]
        /\ UNCHANGED <<alert_vars, manager_vars, launcher_vars>>

\* One lookup, by the helper and by the application's own function.
Lookup(ticker, pattern, readable) ==
    /\ bt_call' = [op |-> "lookup", ticker |-> ticker, pattern |-> pattern,
                   readable |-> readable,
                   hist |-> get_backtest_stats(memory_file, readable, ticker, pattern),
                   app_hist |-> app_get_backtest_stats(memory_file, readable, ticker, pattern)]
    /\ UNCHANGED memory_file
    /\ UNCHANGED <<alert_vars, manager_vars, launcher_vars>>

(***************************************************************************)
(* market_hours_manager.py: MarketHoursManager                             *)
(***************************************************************************)
\* A time of day in seconds since midnight.
HMS(h, m, s) == h * 3600 + m * 60 + s

MaxDay == 3
MaxCalls == 3

\* Calendar days, counted from a Thursday: datetime.weekday() has Monday = 0.
weekday(day) == (day + 2) % 7

market_open_time == HMS(9, 30, 0)
market_close_time == HMS(16, 0, 0)
daily_reset_time == HMS(17, 0, 0)

ClockTimes ==
    {HMS(9, 29, 59), market_open_time, market_close_time, HMS(16, 0, 1), daily_reset_time}

\* A variant that takes the closing second as outside.
is_within_market_hours_before_close(day, time) ==
    IF weekday(day) > 4 THEN FALSE
    ELSE market_open_time <= time /\ time < market_close_time

\* MarketHoursManager._is_within_market_hours
is_within_market_hours(day, time) ==
    IF weekday(day) > 4 THEN FALSE
    ELSE market_open_time <= time /\ time <= market_close_time

\* MarketHoursManager._reset_daily_flag_if_needed: the flag and the date after it.
reset_daily_flag_if_needed(started, reset_date, day, time) ==
    IF reset_date # Some(day) THEN [started |-> FALSE, reset_date |-> Some(day)]
    ELSE IF time >= daily_reset_time THEN [started |-> FALSE, reset_date |-> reset_date]
    ELSE [started |-> started, reset_date |-> reset_date]

\* MarketHoursManager.check_market_hours: the status returned and the fields after it.
check_market_hours(started, reset_date, day, time) ==
    LET r == reset_daily_flag_if_needed(started, reset_date, day, time)
    IN  IF is_within_market_hours(day, time)
        THEN IF ~r.started
             THEN [status |-> "TRADING_BOT_STARTED", started |-> TRUE, reset_date |-> r.reset_date]
             ELSE [status |-> "WITHIN_MARKET_HOURS", started |-> r.started, reset_date |-> r.reset_date]
        ELSE [status |-> "OUTSIDE_MARKET_HOURS", started |-> r.started, reset_date |-> r.reset_date]

InitManager ==
    /\ bot_started_today = FALSE
    /\ last_reset_date = None
    /\ mh_log = <<>>

\* One call of check_market_hours with a timestamp not before the previous one.
CheckMarketHours(day, time) ==
    /\ Len(mh_log) < MaxCalls
    /\ mh_log # <<>> =>
          \/ mh_log[Len(mh_log)].day < day
          \/ mh_log[Len(mh_log)].day = day /\ mh_log[Len(mh_log)].time <= time
    /\ LET r == check_market_hours(bot_started_today, last_reset_date, day, time)
       IN  /\ bot_started_today' = r.started
           /\ last_reset_date' = r.reset_date
           /\ mh_log' = Append(mh_log, [day |-> day, time |-> time, status |-> r.status,
                                        started |-> r.started])
    /\ UNCHANGED <<alert_vars, backtest_vars, launcher_vars>>

(***************************************************************************)
(* market_hours_launcher.py                                                *)
(***************************************************************************)
MaxIterations == 3

launcher_open_time == HMS(8, 45, 0)
launcher_close_time == HMS(16, 5, 0)

\* What one call of is_market_open finds: the day of the week, whether the
\* date is a US holiday, the time of day, and whether the lookup raises.
Observations ==
    [weekday : {4, 5}, holiday : BOOLEAN,
     time : {HMS(8, 44, 59), launcher_open_time, launcher_close_time, HMS(16, 5, 1)},
     fails : BOOLEAN]

\* market_hours_launcher.py, is_market_open
is_market_open(obs) ==
    IF obs.fails THEN TRUE                                  \* line 81
    ELSE IF obs.weekday >= 5 THEN FALSE
    ELSE IF obs.holiday THEN FALSE
    ELSE launcher_open_time <= obs.time /\ obs.time <= launcher_close_time

\* A variant that also notifies on the first observation.
notification_from_start(last, current) ==
    IF last = None \/ current # last[1]
    THEN IF current THEN "MARKET OPENED" ELSE "MARKET CLOSED"
    ELSE "none"

\* market_hours_monitor, lines 168-177: the message of one iteration.
notification(last, current) ==
    IF last # None /\ current # last[1]
    THEN IF current THEN "MARKET OPENED" ELSE "MARKET CLOSED"
    ELSE "none"

InitLauncher ==
    /\ last_market_state = None
    /\ mon_log = <<>>
    /\ prod_pc = "check"
    /\ prod_check = NoValue

\* market_hours_monitor: one iteration of the loop.
MonitorIteration(obs) ==
    /\ Len(mon_log) < MaxIterations
    /\ LET current_market_state == is_market_open(obs)
       IN  /\ mon_log' = Append(mon_log, [state |-> current_market_state,
                                          sent |-> notification(last_market_state,
                                                                current_market_state)])
           /\ last_market_state' = Some(current_market_state)
    /\ UNCHANGED <<prod_pc, prod_check>>
    /\ UNCHANGED <<alert_vars, backtest_vars, manager_vars>>

\* production_mode_loop, lines 239-255: the gate in front of run_flask_app.
ProductionCheck(obs) ==
    /\ prod_pc = "check"
    /\ prod_check' = [obs |-> obs, open |-> is_market_open(obs)]
    /\ prod_pc' = IF is_market_open(obs) THEN "running" ELSE "waiting"
    /\ UNCHANGED <<last_market_state, mon_log>>
    /\ UNCHANGED <<alert_vars, backtest_vars, manager_vars>>

\* wait_until_market_open, lines 134-142: one poll; it returns once open.
WaitPoll(obs) ==
    /\ prod_pc = "waiting"
    /\ prod_pc' = IF is_market_open(obs) THEN "check" ELSE "waiting"
    /\ UNCHANGED prod_check
    /\ UNCHANGED <<last_market_state, mon_log>>
    /\ UNCHANGED <<alert_vars, backtest_vars, manager_vars>>

\* run_flask_app returns, having served or having crashed.
AppExit ==
    /\ prod_pc = "running"
    /\ prod_pc' = "check"
    /\ UNCHANGED prod_check
    /\ UNCHANGED <<last_market_state, mon_log>>
    /\ UNCHANGED <<alert_vars, backtest_vars, manager_vars>>

(***************************************************************************)
(* TradingEnsemble.get_ensemble_decision                                   *)
(***************************************************************************)
NoDecision == [pending |-> TRUE]

\* __init__: a client exists iff its API key is set.
InitWith(cfgs) ==
    /\ openai_client \in BOOLEAN
    /\ anthropic_client \in BOOLEAN
    /\ models \in cfgs
    /\ context = NoContext
    /\ phase = "idle"
    /\ ready = <<>>
    /\ running = 0
    /\ task = [i \in Tasks |-> "done"]
    /\ task_context = [i \in Tasks |-> NoContext]
    /\ outcome = [i \in Tasks |-> NotCalled]
    /\ results = [i \in Tasks |-> NoValue]
    /\ final_decision = NoDecision
    /\ agent_outcome = NotCalled
    /\ agent_result = NoValue
    /\ agent_context = NoValue
    /\ InitBacktest /\ InitManager /\ InitLauncher

Init == InitWith({ModelsConfig})

\* A variant that creates the coroutines with the context of before line 59.
Dispatch_stale_context(alert) ==
    /\ phase = "idle"
    /\ agent_result = NoValue
    /\ context' = build_context(alert)
    /\ phase' = "gathering"
    /\ ready' = [i \in Tasks |-> i]
    /\ running' = 0
    /\ task' = [i \in Tasks |-> "pending"]
    /\ task_context' = [i \in Tasks |-> context]
    /\ outcome' = [i \in Tasks |-> NotCalled]
    /\ results' = [i \in Tasks |-> NoValue]
    /\ final_decision' = NoDecision
    /\ UNCHANGED <<agent_vars, other_vars>>
    /\ UNCHANGED <<openai_client, anthropic_client, models>>

\* Lines 59-65: the context is built and one coroutine is created per model;
\* line 69: gather schedules them as tasks on the event loop, in that order.
Dispatch(alert) ==
    /\ phase = "idle"
    /\ agent_result = NoValue
    /\ context' = build_context(alert)
    /\ phase' = "gathering"
    /\ ready' = [i \in Tasks |-> i]
    /\ running' = 0
    /\ task' = [i \in Tasks |-> "pending"]
    /\ task_context' = [i \in Tasks |-> context']
    /\ outcome' = [i \in Tasks |-> NotCalled]
    /\ results' = [i \in Tasks |-> NoValue]
    /\ final_decision' = NoDecision
    /\ UNCHANGED <<agent_vars, other_vars>>
    /\ UNCHANGED <<openai_client, anthropic_client, models>>

\* The event loop takes the next task when the thread is free.  The task
\* runs _get_single_model_decision up to the client's create() call
\* (lines 106, 125), a synchronous call that keeps the thread until the
\* backend has answered.
StartCall(i) ==
    /\ phase = "gathering"
    /\ running = 0
    /\ ready # <<>>
    /\ i = Head(ready)
    /\ client_available(models[i], openai_client, anthropic_client)
    /\ ready' = Tail(ready)
    /\ running' = i
    /\ task' = [task EXCEPT ![i] = "calling"]
    /\ UNCHANGED <<agent_vars, other_vars>>
    /\ UNCHANGED <<openai_client, anthropic_client, models, context, phase,
                   task_context, outcome, results, final_decision>>

\* The task of a model whose client is missing: lines 84-85 and 88-89 raise
\* before any call is made, and the task is over at once.
FailWithoutClient(i) ==
    /\ phase = "gathering"
    /\ running = 0
    /\ ready # <<>>
    /\ i = Head(ready)
    /\ ~client_available(models[i], openai_client, anthropic_client)
    /\ LET r == single_model_try(models[i], openai_client, anthropic_client, NotCalled)
       IN  /\ outcome' = [outcome EXCEPT ![i] = NoClient(r.exc)]
           /\ results' = [results EXCEPT ![i] =
                gathered(get_single_model_decision(models[i], openai_client,
                                                   anthropic_client, NotCalled))]
    /\ ready' = Tail(ready)
    /\ task' = [task EXCEPT ![i] = "done"]
    /\ UNCHANGED <<agent_vars, other_vars>>
    /\ UNCHANGED <<openai_client, anthropic_client, models, context, phase,
                   running, task_context, final_decision>>

\* The backend answers (or the call fails): the task runs to its end and
\* frees the thread.
BackendReturns(i, o) ==
    /\ phase = "gathering"
    /\ running = i
    /\ task[i] = "calling"
    /\ outcome' = [outcome EXCEPT ![i] = o]
    /\ results' = [results EXCEPT ![i] =
            gathered(get_single_model_decision(models[i], openai_client,
                                               anthropic_client, o))]
    /\ running' = 0
    /\ task' = [task EXCEPT ![i] = "done"]
    /\ UNCHANGED <<agent_vars, other_vars>>
    /\ UNCHANGED <<openai_client, anthropic_client, models, context, phase,
                   ready, task_context, final_decision>>

\* A variant of the join that is satisfied by the first task that is done.
any_task_done(t) == \E i \in Tasks : t[i] = "done"

\* await asyncio.gather(*tasks, return_exceptions=True) resumes when every
\* task is done.
all_tasks_done(t) == \A i \in Tasks : t[i] = "done"

\* A variant that lists the results newest first.
gather_results_reversed(rs) == [i \in 1..Len(ModelsConfig) |-> rs[Len(ModelsConfig) + 1 - i]]

\* gather returns the results as a list in the order of its arguments.
gather_results(rs) == [i \in 1..Len(ModelsConfig) |-> rs[i]]

\* Lines 69-75
Join ==
    /\ phase = "gathering"
    /\ running = 0
    /\ all_tasks_done(task)
    /\ final_decision' = analyze_consensus(models, gather_results(results))
    /\ phase' = "done"
    /\ ready' = <<>>
    /\ UNCHANGED <<agent_vars, other_vars>>
    /\ UNCHANGED <<openai_client, anthropic_client, models, context, running,
                   task, task_context, outcome, results>>

\* Line 75: get_ensemble_decision returns; its locals are gone and the
\* singleton is ready for the next alert.
Finish ==
    /\ phase = "done"
    /\ phase' = "idle"
    /\ context' = NoContext
    /\ ready' = <<>>
    /\ running' = 0
    /\ task' = [i \in Tasks |-> "done"]
    /\ task_context' = [i \in Tasks |-> NoContext]
    /\ outcome' = [i \in Tasks |-> NotCalled]
    /\ results' = [i \in Tasks |-> NoValue]
    /\ final_decision' = NoDecision
    /\ UNCHANGED <<agent_vars, other_vars>>
    /\ UNCHANGED <<openai_client, anthropic_client, models>>

(***************************************************************************)
(* openai_agent.py: the parser of the single-model path                    *)
(***************************************************************************)
\* Python's None, where a field holds a string otherwise.
Null == "<null>"

\* str.lower() on the values that occur in replies.
Lower(v) ==
    CASE v = "LONG" -> "long"
      [] v = "SHORT" -> "short"
      [] v = "IGNORE" -> "ignore"
      [] v = "LOW" -> "low"
      [] v = "MEDIUM" -> "medium"
      [] v = "HIGH" -> "high"
      [] v = "N/A" -> "n/a"
      [] v = "None" -> "none"
      [] OTHER -> v

MentionsNotes(l) ==
    \/ l.k = "hdr"
    \/ l.k = "prose" /\ l.v = "see notes"
    \/ l.k \in {"star", "plain"} /\ Lower(l.f) = "notes"

HasColon(l) == l.k \in {"star", "plain", "json"}

LevelHeaders ==
    {"direction", "confidence", "entry", "stop", "tp1", "tp2", "single option",
     "vertical spread"}

\* extract_notes_from_text, lines 25-52: the lines the first loop keeps.
notes_pass(lines) ==
    SelectSeq(lines, LAMBDA l :
        /\ l.k \notin {"star", "json", "sep", "blank"}       \* lines 29-34
        /\ ~MentionsNotes(l)                                  \* lines 37-39
        /\ (l.k = "plain" /\ Lower(l.f) \in LevelHeaders      \* lines 42-48
              => l.v # "" /\ Lower(l.v) \notin {"n/a", "none"}))

\* extract_notes_from_text, lines 60-67: the lines the fallback loop keeps.
notes_fallback(lines) ==
    SelectSeq(lines, LAMBDA l :
        /\ l.k \notin {"blank", "star"}
        /\ ~HasColon(l)
        /\ LineLen(l) > 10)

extract_notes_from_text(lines) ==
    LET kept == notes_pass(lines)
        fb == notes_fallback(lines)
    IN IF kept # <<>> THEN Reasoning("extracted", "", kept, JoinedLen(kept))
       ELSE IF fb # <<>> THEN Reasoning("fallback", "", fb, JoinedLen(fb))
       ELSE Reasoning("placeholder", "", <<>>, 60)

\* A variant whose default direction is long.
AgentDefaults_long(notes) ==
    [direction |-> "long",
     confidence |-> "low",
     entry |-> Null,
     stop |-> Null,
     tp1 |-> Null,
     tp2 |-> Null,
     single_option |-> "None",
     vertical_spread |-> "None",
     notes |-> notes]

AgentDefaults(notes) ==
    [direction |-> "ignore",
     confidence |-> "low",
     entry |-> Null,
     stop |-> Null,
     tp1 |-> Null,
     tp2 |-> Null,
     single_option |-> "None",
     vertical_spread |-> "None",
     notes |-> notes]

\* parse_structured_response, lines 90-125, for one line.
structured_line(data, l) ==
    IF l.k # "star" THEN data
    ELSE CASE l.f = "Direction" ->
                IF Upper(l.v) \in {"LONG", "SHORT"}
                THEN [data EXCEPT !.direction = Lower(l.v)] ELSE data
           [] l.f = "Confidence" ->
                IF Upper(l.v) \in {"LOW", "MEDIUM", "HIGH"}
                THEN [data EXCEPT !.confidence = Lower(l.v)] ELSE data
           [] l.f = "Entry" ->
                IF Lower(l.v) \notin {"n/a", "none"}
                THEN [data EXCEPT !.entry = l.v] ELSE data
           [] l.f = "Stop" ->
                IF Lower(l.v) \notin {"n/a", "none"}
                THEN [data EXCEPT !.stop = l.v] ELSE data
           [] l.f = "TP1" ->
                IF Lower(l.v) \notin {"n/a", "none"}
                THEN [data EXCEPT !.tp1 = l.v] ELSE data
           [] l.f = "TP2" ->
                IF Lower(l.v) \notin {"n/a", "none"}
                THEN [data EXCEPT !.tp2 = l.v] ELSE data
           [] l.f = "Single Option" ->
                IF Lower(l.v) \notin {"n/a", "none"}
                THEN [data EXCEPT !.single_option = l.v] ELSE data
           [] l.f = "Vertical Spread" ->
                IF Lower(l.v) \notin {"n/a", "none"}
                THEN [data EXCEPT !.vertical_spread = l.v] ELSE data
           [] OTHER -> data

RECURSIVE structured_loop(_, _, _)
structured_loop(data, lines, n) ==
    IF n = 0 THEN data
    ELSE structured_line(structured_loop(data, lines, n - 1), lines[n])

parse_structured_response(lines) ==
    [structured_loop(AgentDefaults(Reasoning("", "", <<>>, 0)), lines, Len(lines))
        EXCEPT !.notes = extract_notes_from_text(lines)]

\* The objects that the embedded {...} spans of the replies decode to.  A
\* field that the object lacks (or gives as null) is Null; "broken" does not
\* decode (json.loads raises).
JsonDecodes(id) == id # "broken"

JsonObject(id) ==
    CASE id = "long_high" ->
            [direction |-> "long", confidence |-> "high", entry |-> "101.5",
             stop |-> "99.0", tp1 |-> "103.0", tp2 |-> "105.0", notes |-> "clean breakout"]
      [] id = "buy" ->
            [direction |-> "buy", confidence |-> "high", entry |-> "101.5",
             stop |-> Null, tp1 |-> Null, tp2 |-> Null, notes |-> ""]
      [] id = "ignore_levels" ->
            [direction |-> "ignore", confidence |-> "low", entry |-> "101.5",
             stop |-> "99.0", tp1 |-> Null, tp2 |-> Null, notes |-> Null]
      [] OTHER ->
            [direction |-> Null, confidence |-> Null, entry |-> Null,
             stop |-> Null, tp1 |-> Null, tp2 |-> Null, notes |-> Null]

\* Lines 143-170, for the object that the first {...} span decodes to.
fill_required_fields(obj, lines) ==
    LET orDefault(v, d) == IF v = Null THEN d ELSE v
        notes == IF obj.notes \in {Null, "n/a", "None", ""}
                 THEN extract_notes_from_text(lines)
                 ELSE Reasoning("json", "", <<>>, 14)
    IN [direction |-> orDefault(obj.direction, "ignore"),
        confidence |-> orDefault(obj.confidence, "low"),
        entry |-> obj.entry,
        stop |-> obj.stop,
        tp1 |-> obj.tp1,
        tp2 |-> obj.tp2,
        single_option |-> "None",
        vertical_spread |-> "None",
        notes |-> notes]

parse_ai_response(lines) ==
    LET labelled == \E i \in 1..Len(lines) :
                        lines[i].k = "star" /\ lines[i].f \in {"Direction", "Confidence", "Entry"}
        spans == {i \in 1..Len(lines) : lines[i].k = "json"}
        first == CHOOSE i \in spans : \A j \in spans : i <= j
    IN IF labelled THEN parse_structured_response(lines)
       ELSE IF spans # {}
       THEN IF JsonDecodes(lines[first].v)
            THEN fill_required_fields(JsonObject(lines[first].v), lines)
            ELSE AgentDefaults(extract_notes_from_text(lines))   \* lines 175-188
       ELSE parse_structured_response(lines)

(***************************************************************************)
(* openai_agent.py: build_agent_context and get_agent_decision             *)
(***************************************************************************)
Truthy(n) == n # None /\ n[1] # 0

\* Lines 206-207
ib_range_of(a) ==
    IF Truthy(a.ib_high) /\ Truthy(a.ib_low) THEN Some(a.ib_high[1] - a.ib_low[1]) ELSE None

range_percentage_defined(a) == Truthy(ib_range_of(a)) /\ Truthy(a.close)

\* A variant whose comparison with 1.2 includes the bound.
edge_of_inclusive(hist) ==
    IF hist.winrate_pct > 5000 /\ hist.avg_rr[1] >= 120 THEN "POSITIVE"
    ELSE IF hist.winrate_pct < 4000 THEN "NEGATIVE"
    ELSE "NEUTRAL"

\* Line 224
edge_of(hist) ==
    IF hist.winrate_pct > 5000 /\ hist.avg_rr[1] > 120 THEN "POSITIVE"
    ELSE IF hist.winrate_pct < 4000 THEN "NEGATIVE"
    ELSE "NEUTRAL"

NoHist == [present |-> FALSE, winrate_pct |-> 0, avg_rr |-> None]
Hist(w, rr) == [present |-> TRUE, winrate_pct |-> w, avg_rr |-> rr]

\* build_agent_context: the comparison of line 224 raises on an avg_rr of
\* None when it is reached, and the format {range_percentage:.2f} of line 237
\* raises on None.
build_agent_context(a, hist) ==
    IF hist.present /\ hist.winrate_pct > 5000 /\ hist.avg_rr = None
    THEN Raise("TypeError")
    ELSE IF ~range_percentage_defined(a)
    THEN Raise("TypeError")
    ELSE Return([has_hist |-> hist.present,
                 winrate_pct |-> hist.winrate_pct,
                 avg_rr |-> hist.avg_rr,
                 edge |-> IF hist.present THEN edge_of(hist) ELSE ""])

\* Lines 282-292
agent_error_decision(e) ==
    [direction |-> "ignore",
     confidence |-> "low",
     entry |-> Null,
     stop |-> Null,
     tp1 |-> Null,
     tp2 |-> Null,
     single_option |-> "n/a",
     vertical_spread |-> "n/a",
     notes |-> Reasoning("OpenAI error: ", e, <<>>, 0)]

\* Lines 259-278: the body of the try.
agent_try(a, hist, o) ==
    LET ctx == build_agent_context(a, hist)
    IN IF ctx.raised THEN ctx
       ELSE CASE o.kind \in {"api_error", "no_choices", "no_content"} -> Raise(o.err)
              [] OTHER -> Return(parse_ai_response(Strip(o.lines)))

get_agent_decision(a, hist, o) ==
    LET r == agent_try(a, hist, o)
    IN IF r.raised THEN Return(agent_error_decision(r.exc)) ELSE r

AgentAlerts ==
    { [close |-> Some(10150), ib_high |-> Some(10200), ib_low |-> Some(10000)],
      [close |-> Some(10150), ib_high |-> None, ib_low |-> None] }

Hists ==
    {NoHist, Hist(5500, Some(264)), Hist(5500, None), Hist(3671, Some(264))}
    \cup {Hist(w, rr) : w \in {3999, 4000, 5000, 5001}, rr \in {None, Some(120), Some(121)}}

AgentReplies ==
    { << Star("Direction", "LONG"), Star("Confidence", "HIGH"), Star("Entry", "101.5"),
         Star("Stop", "n/a"), Sep, NotesHdr, Prose("brief") >>,
      << Star("Direction", "IGNORE"), Star("Confidence", "LOW"), Star("Entry", "101.5") >>,
      << Prose("brief"), Json("long_high") >>,
      << Json("buy") >>,
      << Json("broken"), Prose("tiny") >>,
      << Prose("see notes") >>,
      << Plain("Direction", "SHORT"), Prose("essay") >>,
      << Prose("bullish") >>,
      << Prose("essay"), Prose("essay") >>,
      << Star("Direction", "BUY"), Star("Confidence", "VERY HIGH") >>,
      << Json("long_high"), Star("Direction", "SHORT"), Star("Confidence", "LOW") >> }

AgentOutcomes ==
    {ApiError(e) : e \in ApiErrors}
    \cup {NoChoices, NoContent}
    \cup {Reply(r) : r \in AgentReplies}

\* What the caller of a function gets: its value, or the exception.
call_result(r) ==
    IF r.raised THEN [exception |-> r.exc] ELSE r.value

\* Alerts are handled one at a time, each by one of the two paths.
\* get_agent_decision is one synchronous call.  When the context cannot be
\* built the backend is not called.
GetAgentDecision(a, hist, o) ==
    /\ phase = "idle"
    /\ agent_result = NoValue
    /\ agent_outcome' = IF build_agent_context(a, hist).raised THEN NotCalled ELSE o
    /\ agent_result' = call_result(get_agent_decision(a, hist, o))
    /\ agent_context' = call_result(build_agent_context(a, hist))
    /\ UNCHANGED <<ensemble_vars, other_vars>>

\* Line 278 or 282: get_agent_decision returns.
AgentFinish ==
    /\ agent_result # NoValue
    /\ agent_outcome' = NotCalled
    /\ agent_result' = NoValue
    /\ agent_context' = NoValue
    /\ UNCHANGED <<ensemble_vars, other_vars>>

NextEnsemble ==
    \/ \E a \in Alerts : Dispatch(a)
    \/ \E i \in Tasks : StartCall(i)
    \/ \E i \in Tasks : FailWithoutClient(i)
    \/ \E i \in Tasks, o \in Outcomes : BackendReturns(i, o)
    \/ Join
    \/ Finish

NextAgent ==
    \/ \E a \in AgentAlerts, h \in Hists, o \in AgentOutcomes : GetAgentDecision(a, h, o)
    \/ AgentFinish

Next == NextEnsemble \/ NextAgent

Spec == Init /\ [][Next]_vars

\* The event loop keeps running the tasks and the join, and every call that
\* holds the thread returns or fails.
EventLoopStep ==
    \/ \E i \in Tasks : StartCall(i)
    \/ \E i \in Tasks : FailWithoutClient(i)
    \/ Join

BackendStep == \E i \in Tasks, o \in Outcomes : BackendReturns(i, o)

Fairness == WF_vars(EventLoopStep) /\ WF_vars(BackendStep)

FairSpec == Spec /\ Fairness

\* The same program with either weight table.
SpecWeights == InitWith({ModelsConfig, EqualWeightsConfig}) /\ [][Next]_vars

\* What gather can hand to _analyze_consensus for task i: the dict that
\* _get_single_model_decision returns on any outcome of the call, or an
\* exception object (return_exceptions=True).
GatherResults(i) ==
    {gathered(get_single_model_decision(ModelsConfig[i], TRUE, TRUE, o)) : o \in Outcomes}
    \cup {gathered(get_single_model_decision(ModelsConfig[i], FALSE, FALSE, NotCalled))}
    \cup {gathered(Raise(e)) : e \in ApiErrors}

\* get_ensemble_decision at line 69, when gather has just collected any
\* combination of such results.
InitGathered ==
    /\ openai_client = TRUE
    /\ anthropic_client = TRUE
    /\ models = ModelsConfig
    /\ context = NoContext
    /\ phase = "gathering"
    /\ ready = <<>>
    /\ running = 0
    /\ task = [i \in Tasks |-> "done"]
    /\ task_context = [i \in Tasks |-> NoContext]
    /\ outcome = [i \in Tasks |-> NotCalled]
    /\ \E r1 \in GatherResults(1), r2 \in GatherResults(2), r3 \in GatherResults(3) :
            results = <<r1, r2, r3>>
    /\ final_decision = NoDecision
    /\ agent_outcome = NotCalled
    /\ agent_result = NoValue
    /\ agent_context = NoValue
    /\ InitBacktest /\ InitManager /\ InitLauncher

\* The program, and _analyze_consensus on every combination of results.
SpecGather == (Init \/ InitGathered) /\ [][Next]_vars

\* Both API keys set: the start of the runs of the other modules.
InitConfigured == Init /\ openai_client = TRUE /\ anthropic_client = TRUE

\* The backtest endpoint and the lookups, one call at a time.
NextBacktest ==
    \/ \E call \in UploadCalls : Upload(call.body, call.ticker_hint, call.io)
    \/ \E ticker \in {"amd", "spy", "UNKNOWN"},
          pattern \in {" 3-1_breakout_long ", "3-1_breakout_short", "unknown"},
          readable \in BOOLEAN :
          Lookup(ticker, pattern, readable)

SpecBacktest == InitConfigured /\ [][NextBacktest]_vars

\* A MarketHoursManager called with timestamps that never go back.
NextManager == \E day \in 1..MaxDay, time \in ClockTimes : CheckMarketHours(day, time)

SpecManager == InitConfigured /\ [][NextManager]_vars

\* The launcher in production mode: the monitor thread and the main loop.
NextLauncher ==
    \/ \E obs \in Observations : MonitorIteration(obs)
    \/ \E obs \in Observations : ProductionCheck(obs)
    \/ \E obs \in Observations : WaitPoll(obs)
    \/ AppExit

SpecLauncher == InitConfigured /\ [][NextLauncher]_vars

(***************************************************************************)
(* Properties                                                              *)
(***************************************************************************)
\* get_ensemble_decision has computed the decision it returns.
Returned == phase = "done"

\* The tasks whose result is a valid (not failed) decision.
ValidTasks == {i \in Tasks : IsDict(results[i]) /\ ~results[i].error}

\* The valid results that voted for direction d.
Voters(d) == {i \in ValidTasks : results[i].direction = d}
Votes(d) == Cardinality(Voters(d))

\* The backend call did not produce a reply text.
FailedOutcome(o) == o.kind \in {"no_client", "api_error", "no_choices", "no_content"}

RECURSIVE SumCounts(_)
SumCounts(items) ==
    IF items = <<>> THEN 0 ELSE Head(items).count + SumCounts(Tail(items))

ConfigIndex(name) == CHOOSE i \in Tasks : models[i].name = name

ContainsFailed(text) == text \in {"All models failed or had errors"}

\* C1: whenever a backend call has failed (client not initialised, API error,
\* reply without choices or content), _get_single_model_decision has not
\* raised: the task's result is a dict marked error with direction IGNORE,
\* confidence LOW and a reasoning that embeds the error; and get_agent_decision
\* has returned direction ignore, confidence low and notes that embed the error.
C1_FailClosed ==
    /\ \A i \in Tasks :
        phase # "idle" /\ task[i] = "done" /\ FailedOutcome(outcome[i]) =>
            /\ IsDict(results[i])
            /\ results[i].error
            /\ results[i].direction = "IGNORE"
            /\ results[i].confidence = "LOW"
            /\ results[i].reasoning.src \in {"Error: ", "Parse error: "}
            /\ results[i].reasoning.err = outcome[i].err
    /\ agent_result # NoValue /\ FailedOutcome(agent_outcome) =>
            /\ "direction" \in DOMAIN agent_result
            /\ agent_result.direction = "ignore"
            /\ agent_result.confidence = "low"
            /\ agent_result.notes.src = "OpenAI error: "
            /\ agent_result.notes.err = agent_outcome.err

\* C1 witness: in one gather a backend has failed with an API error and
\* another has replied without content; both are recorded as failed.
C1_Witness ==
    /\ Returned
    /\ \E i, j \in Tasks :
        /\ outcome[i].kind = "api_error" /\ IsDict(results[i]) /\ results[i].error
        /\ outcome[j].kind = "no_content" /\ IsDict(results[j]) /\ results[j].error

\* C2: the consensus is LONG (SHORT) only if a valid result voted LONG
\* (SHORT); failed results are in no count of the breakdown, and they do not
\* weigh on the confidence: when all valid results have the same confidence,
\* that is the consensus confidence.
C2_FailedBackendsDoNotVote ==
    Returned =>
        /\ final_decision.direction \in {"LONG", "SHORT"} =>
                Votes(final_decision.direction) >= 1
        /\ SumCounts(final_decision.consensus_breakdown) = Cardinality(ValidTasks)
        /\ \A k \in 1..Len(final_decision.consensus_breakdown) :
                final_decision.consensus_breakdown[k].count =
                    Votes(final_decision.consensus_breakdown[k].dir)
        /\ \A c \in Confidences :
                (ValidTasks # {} /\ \A i \in ValidTasks : results[i].confidence = c)
                    => final_decision.confidence = c

\* C2 witness: two backends have failed, the third voted LONG with HIGH
\* confidence, and the consensus is LONG, HIGH.
C2_Witness ==
    /\ Returned
    /\ Cardinality(ValidTasks) = 1
    /\ \E i \in ValidTasks : results[i].direction = "LONG" /\ results[i].confidence = "HIGH"
    /\ \E i \in Tasks : outcome[i].kind = "api_error"
    /\ final_decision.direction = "LONG"
    /\ final_decision.confidence = "HIGH"

\* C3: with at least one valid result, the consensus direction is the
\* direction voted by the earliest-configured backend among the voters of the
\* directions with the highest count (the one direction, when the highest
\* count is strict).
C3_PluralityEarliestWins ==
    Returned /\ ValidTasks # {} =>
        LET top == CHOOSE n \in 0..Len(models) :
                        /\ \E d \in Directions : Votes(d) = n
                        /\ \A d \in Directions : Votes(d) <= n
            tied == {d \in Directions : Votes(d) = top}
            tiedVoters == {i \in ValidTasks : results[i].direction \in tied}
            earliest == CHOOSE i \in tiedVoters : \A j \in tiedVoters : i <= j
        IN final_decision.direction = results[earliest].direction

\* C3 witness: three valid votes for three directions, and the consensus is
\* SHORT, the vote of the first model.
C3_Witness ==
    /\ Returned
    /\ ValidTasks = Tasks
    /\ results[1].direction = "SHORT"
    /\ results[2].direction = "LONG"
    /\ results[3].direction = "IGNORE"
    /\ final_decision.direction = "SHORT"

RECURSIVE ScoreTimesWeightUpTo(_)
ScoreTimesWeightUpTo(n) ==
    IF n = 0 THEN 0
    ELSE ScoreTimesWeightUpTo(n - 1) +
         (IF n \in ValidTasks
          THEN models[n].weight *
               (CASE results[n].confidence = "HIGH" -> 3
                  [] results[n].confidence = "MEDIUM" -> 2
                  [] OTHER -> 1)
          ELSE 0)

RECURSIVE WeightUpTo(_)
WeightUpTo(n) ==
    IF n = 0 THEN 0
    ELSE WeightUpTo(n - 1) + (IF n \in ValidTasks THEN models[n].weight ELSE 0)

\* C4: the consensus confidence is HIGH iff the weighted average of the
\* scores of the valid results (weights of the valid results only) is at
\* least 2.5, MEDIUM iff it is at least 1.5 and below 2.5, LOW otherwise; and
\* LONG/HIGH, LONG/MEDIUM, SHORT/LOW with equal weights give LONG, MEDIUM.
C4_WeightedConfidence ==
    Returned /\ ValidTasks # {} =>
        LET sw == ScoreTimesWeightUpTo(Len(models))
            w == WeightUpTo(Len(models))
        IN /\ final_decision.confidence = "HIGH" <=> 2 * sw >= 5 * w
           /\ final_decision.confidence = "MEDIUM" <=> (2 * sw >= 3 * w /\ 2 * sw < 5 * w)
           /\ final_decision.confidence = "LOW" <=> 2 * sw < 3 * w
           /\ ( /\ models = EqualWeightsConfig
                /\ ValidTasks = Tasks
                /\ \E i, j, k \in Tasks :
                    /\ {i, j, k} = Tasks
                    /\ results[i].direction = "LONG" /\ results[i].confidence = "HIGH"
                    /\ results[j].direction = "LONG" /\ results[j].confidence = "MEDIUM"
                    /\ results[k].direction = "SHORT" /\ results[k].confidence = "LOW" )
              => final_decision.direction = "LONG" /\ final_decision.confidence = "MEDIUM"

\* C4 witness: the scenario with equal weights, decided LONG, MEDIUM.
C4_Witness ==
    /\ Returned
    /\ models = EqualWeightsConfig
    /\ ValidTasks = Tasks
    /\ results[1].direction = "LONG" /\ results[1].confidence = "HIGH"
    /\ results[2].direction = "LONG" /\ results[2].confidence = "MEDIUM"
    /\ results[3].direction = "SHORT" /\ results[3].confidence = "LOW"
    /\ final_decision.direction = "LONG"
    /\ final_decision.confidence = "MEDIUM"

\* C5: when no backend yields a valid result, the decision is IGNORE, LOW,
\* with the all-models-failed reasoning, an empty detail list and an empty
\* breakdown.
C5_TotalFailure ==
    Returned /\ ValidTasks = {} =>
        /\ final_decision.direction = "IGNORE"
        /\ final_decision.confidence = "LOW"
        /\ final_decision.reasoning.text = "All models failed or had errors"
        /\ final_decision.model_details = <<>>
        /\ final_decision.consensus_breakdown = <<>>

\* C5 witness: a decision returned after one client was missing and the
\* calls of the other failed.
C5_Witness ==
    /\ Returned
    /\ ValidTasks = {}
    /\ \E i \in Tasks : outcome[i].kind = "no_client"
    /\ \E i \in Tasks : outcome[i].kind = "api_error"
    /\ final_decision.direction = "IGNORE"

\* C6: when some but not all backends fail, model_details has one entry for
\* every configured backend, the failed ones included with their failure
\* reason.
C6_FailedBackendsListed ==
    Returned /\ ValidTasks # {} /\ ValidTasks # Tasks =>
        /\ Len(final_decision.model_details) = Len(models)
        /\ \A i \in Tasks \ ValidTasks :
            \E k \in 1..Len(final_decision.model_details) :
                final_decision.model_details[k] = results[i]

\* C7 as stated: when all three backends fail, the decision is IGNORE, its
\* reasoning contains "failed", and model_details has three entries, each
\* marked as a failure.
C7_AllFailedListed ==
    Returned /\ (\A i \in Tasks : FailedOutcome(outcome[i])) =>
        /\ final_decision.direction = "IGNORE"
        /\ ContainsFailed(final_decision.reasoning.text)
        /\ Len(final_decision.model_details) = Len(models)
        /\ \A k \in 1..Len(final_decision.model_details) :
                final_decision.model_details[k].error

\* C7 as amended: when all three backends fail, every result is marked as a
\* failure, the decision is IGNORE and not a success, its reasoning contains
\* "failed", and model_details is empty.
C7_AllFailedNotListed ==
    Returned /\ (\A i \in Tasks : FailedOutcome(outcome[i])) =>
        /\ \A i \in Tasks : IsDict(results[i]) /\ results[i].error
        /\ final_decision.direction = "IGNORE"
        /\ ContainsFailed(final_decision.reasoning.text)
        /\ ~final_decision.success
        /\ Len(final_decision.model_details) = 0

\* C7 witness: the three calls have timed out and the decision is returned.
C7_Witness ==
    /\ Returned
    /\ \A i \in Tasks : outcome[i] = ApiError("APITimeoutError")
    /\ ~final_decision.success

\* C8: the backend calls are in flight together: no call is still waiting to
\* be started when another call has completed its round trip to the backend.
C8_ParallelDispatch ==
    \A i, j \in Tasks :
        (phase = "gathering" /\ task[j] = "pending") =>
            ~(task[i] = "done" /\ outcome[i].kind \notin {"no_client", "not_called"})

\* C9: the consensus is computed only when every task is done and has a
\* result; a backend whose client exists has been called, whatever happened to
\* the others; every valid result is in the decision; and a dispatched
\* get_ensemble_decision returns, provided every call returns or fails.
C9_JoinSemantics ==
    /\ [](Returned =>
            \A i \in Tasks :
                /\ task[i] = "done"
                /\ results[i] # NoValue
                /\ outcome[i].kind # "not_called"
                /\ client_available(models[i], openai_client, anthropic_client)
                        => outcome[i].kind # "no_client"
                /\ i \in ValidTasks =>
                        \E k \in 1..Len(final_decision.model_details) :
                            final_decision.model_details[k] = results[i])
    /\ (phase = "gathering") ~> Returned

\* C9 witness: the first call failed, the other two replied, and their two
\* results are in the decision.
C9_Witness ==
    /\ Returned
    /\ outcome[1].kind = "api_error"
    /\ outcome[2].kind = "reply"
    /\ outcome[3].kind = "reply"
    /\ Len(final_decision.model_details) = 2

\* C10: the entries of model_details are in configuration order.
C10_DetailsInConfigurationOrder ==
    Returned =>
        \A k, l \in 1..Len(final_decision.model_details) :
            k < l => ConfigIndex(final_decision.model_details[k].model)
                        < ConfigIndex(final_decision.model_details[l].model)

\* C10 witness: three valid results, listed gpt-4o, gpt-4-turbo, claude.
C10_Witness ==
    /\ Returned
    /\ Len(final_decision.model_details) = 3
    /\ final_decision.model_details[1].model = "gpt-4o"
    /\ final_decision.model_details[2].model = "gpt-4-turbo"
    /\ final_decision.model_details[3].model = "claude-3-5-sonnet-20241022"

\* The value is a decision record (not an exception).
IsDecision(d) == {"direction", "confidence"} \subseteq DOMAIN d

\* C11: whatever each backend's task has produced (a valid decision, a caught
\* failure, an exception object), get_ensemble_decision returns a decision
\* record with direction LONG, SHORT or IGNORE and confidence LOW, MEDIUM or
\* HIGH, and never an exception.
C11_WellFormedDecision ==
    Returned =>
        /\ IsDecision(final_decision)
        /\ final_decision.direction \in Directions
        /\ final_decision.confidence \in Confidences

\* C11 witness: a decision returned from one valid result, one caught failure
\* and one exception object.
C11_Witness ==
    /\ Returned
    /\ \E i, j, k \in Tasks :
        /\ i \in ValidTasks
        /\ IsDict(results[j]) /\ results[j].error
        /\ ~IsDict(results[k])
    /\ IsDecision(final_decision)
    /\ final_decision.success

\* C12: when neither client is initialised (the credentials of every backend
\* are missing), get_ensemble_decision does not return the ordinary
\* all-models-failed decision.
C12_ConfigurationErrorReported ==
    (Returned /\ ~openai_client /\ ~anthropic_client) =>
        final_decision # all_failed_decision

\* The order LOW < MEDIUM < HIGH of the confidence labels.
Rank(c) == CASE c = "LOW" -> 1 [] c = "MEDIUM" -> 2 [] c = "HIGH" -> 3 [] OTHER -> 0

\* The gathered results with the confidence of task i's result replaced.
WithConfidence(i, c) == [results EXCEPT ![i].confidence = c]

\* C13: replacing the confidence LOW of one valid result by HIGH, everything
\* else unchanged, never lowers the consensus confidence and leaves the
\* consensus direction as it is.
C13_ConfidenceMonotone ==
    Returned =>
        \A i \in ValidTasks :
            results[i].confidence = "LOW" =>
                LET raised == analyze_consensus(models, gather_results(WithConfidence(i, "HIGH")))
                IN /\ Rank(raised.confidence) >= Rank(final_decision.confidence)
                   /\ raised.direction = final_decision.direction

\* C13 witness: a consensus of LOW that becomes HIGH when the LOW vote of
\* one of two valid results is replaced by HIGH.
C13_Witness ==
    /\ Returned
    /\ Cardinality(ValidTasks) = 2
    /\ final_decision.confidence = "LOW"
    /\ \E i \in ValidTasks :
        /\ results[i].confidence = "LOW"
        /\ analyze_consensus(models, gather_results(WithConfidence(i, "HIGH"))).confidence
                = "HIGH"

\* The greatest weight (in hundredths) tried for a single backend.
MaxWeight == 150

\* C14: when exactly one result is valid, the consensus has its direction
\* and its confidence, whatever positive weight its backend has, and also
\* when that backend is the only one configured.
C14_EnsembleOfOne ==
    (Returned /\ Cardinality(ValidTasks) = 1) =>
        \A i \in ValidTasks :
            /\ final_decision.direction = results[i].direction
            /\ final_decision.confidence = results[i].confidence
            /\ \A w \in 1..MaxWeight :
                LET d == analyze_consensus([models EXCEPT ![i].weight = w],
                                           gather_results(results))
                    alone == analyze_consensus(<<[models[i] EXCEPT !.weight = w]>>,
                                               <<results[i]>>)
                IN /\ d.direction = results[i].direction
                   /\ d.confidence = results[i].confidence
                   /\ alone.direction = results[i].direction
                   /\ alone.confidence = results[i].confidence

\* C14 witness: two backends failed, the third voted SHORT with MEDIUM
\* confidence, and that is the consensus.
C14_Witness ==
    /\ Returned
    /\ Cardinality(ValidTasks) = 1
    /\ \E i \in ValidTasks :
        /\ results[i].direction = "SHORT" /\ results[i].confidence = "MEDIUM"
    /\ final_decision.direction = "SHORT"
    /\ final_decision.confidence = "MEDIUM"

\* get_agent_decision has returned what parse_ai_response made of a reply.
AgentParsed == agent_outcome.kind = "reply" /\ agent_result # NoValue

\* The reply text that parse_ai_response was given (line 271 strips it).
AgentReplyLines == Strip(agent_outcome.lines)

\* Task i has returned what _parse_decision made of a reply.
Parsed(i) == outcome[i].kind = "reply" /\ results[i] # NoValue

\* C15: the direction that either parser outputs for a reply is one of
\* long, short, ignore (in the parser's letter case).
C15_DirectionIsEnumValue ==
    /\ AgentParsed => agent_result.direction \in {"long", "short", "ignore"}
    /\ \A i \in Tasks : Parsed(i) => results[i].direction \in Directions

\* C16: a decision parsed with direction ignore has no entry, stop, tp1, tp2.
C16_IgnoreHasNoLevels ==
    (AgentParsed /\ agent_result.direction = "ignore") =>
        /\ agent_result.entry = Null
        /\ agent_result.stop = Null
        /\ agent_result.tp1 = Null
        /\ agent_result.tp2 = Null

\* The embedded JSON spans of a text, and the first of them.
JsonSpans(lines) == {i \in 1..Len(lines) : lines[i].k = "json"}
FirstJson(lines) == lines[CHOOSE i \in JsonSpans(lines) : \A j \in JsonSpans(lines) : i <= j].v

\* The text has a "**Field:** value" line.
HasLabelledLines(lines) == \E i \in 1..Len(lines) : lines[i].k = "star"

\* C17: for a reply that has both a JSON object (that decodes) and labelled
\* lines, direction and confidence of the decision are those of the object.
C17_JsonBeforeLabelledLines ==
    (AgentParsed /\ JsonSpans(AgentReplyLines) # {} /\ HasLabelledLines(AgentReplyLines)
                 /\ JsonDecodes(FirstJson(AgentReplyLines))) =>
        /\ agent_result.direction = JsonObject(FirstJson(AgentReplyLines)).direction
        /\ agent_result.confidence = JsonObject(FirstJson(AgentReplyLines)).confidence

\* The tokens and phrases that a prose text has.
ProseSays(v) == IF v = "bullish" THEN {"long", "high confidence"} ELSE {}

\* The text is prose only: no JSON span, no labelled line.
IsProseOnly(lines) ==
    lines # <<>> /\ \A i \in 1..Len(lines) : lines[i].k \in {"prose", "blank"}

TextSays(lines) == UNION {ProseSays(lines[i].v) : i \in 1..Len(lines)}

\* What the prose heuristic gives for a text.
HeuristicDirection(lines) ==
    IF "long" \in TextSays(lines) /\ "short" \notin TextSays(lines) THEN "long"
    ELSE IF "short" \in TextSays(lines) /\ "long" \notin TextSays(lines) THEN "short"
    ELSE "ignore"

HeuristicConfidence(lines) ==
    IF "high confidence" \in TextSays(lines) THEN "high"
    ELSE IF "medium confidence" \in TextSays(lines) THEN "medium"
    ELSE "low"

\* C18: for a reply that is prose only, direction and confidence are those
\* that the tokens long / short and the phrases high confidence / medium
\* confidence of the text give.
C18_ProseFallback ==
    /\ (AgentParsed /\ IsProseOnly(AgentReplyLines)) =>
            /\ agent_result.direction = HeuristicDirection(AgentReplyLines)
            /\ agent_result.confidence = HeuristicConfidence(AgentReplyLines)
    /\ \A i \in Tasks :
            (Parsed(i) /\ IsProseOnly(outcome[i].lines)) =>
                /\ results[i].direction = Upper(HeuristicDirection(outcome[i].lines))
                /\ results[i].confidence = Upper(HeuristicConfidence(outcome[i].lines))

\* The text has a line of one of the kinds, labelled f, with a value of `valid`.
HasValid(lines, kinds, labels, valid) ==
    \E i \in 1..Len(lines) :
        lines[i].k \in kinds /\ lines[i].f \in labels /\ Upper(lines[i].v) \in valid

\* parse_ai_response takes the text as labelled lines.
TakenAsLabelled(lines) ==
    \/ \E i \in 1..Len(lines) :
            lines[i].k = "star" /\ lines[i].f \in {"Direction", "Confidence", "Entry"}
    \/ JsonSpans(lines) = {}

\* C19: a parser does not raise on a reply: get_agent_decision returns what
\* parse_ai_response made of it and not its own error decision, and a task
\* returns a result that is not marked error; a JSON span that does not
\* decode gives ignore, low; labelled lines without a valid direction
\* (confidence) give ignore (low).
C19_ParserNeverRaises ==
    /\ AgentParsed =>
        /\ IsDecision(agent_result)
        /\ agent_result.notes.src # "OpenAI error: "
        /\ (~TakenAsLabelled(AgentReplyLines) /\ ~JsonDecodes(FirstJson(AgentReplyLines)))
                => agent_result.direction = "ignore" /\ agent_result.confidence = "low"
        /\ (TakenAsLabelled(AgentReplyLines)
                /\ ~HasValid(AgentReplyLines, {"star"}, {"Direction"}, {"LONG", "SHORT"}))
                => agent_result.direction = "ignore"
        /\ (TakenAsLabelled(AgentReplyLines)
                /\ ~HasValid(AgentReplyLines, {"star"}, {"Confidence"}, Confidences))
                => agent_result.confidence = "low"
    /\ \A i \in Tasks :
        Parsed(i) =>
            /\ IsDict(results[i]) /\ ~results[i].error
            /\ ~HasValid(outcome[i].lines, {"star", "plain"},
                         Spellings("Direction") \cup Spellings("Decision"), Directions)
                    => results[i].direction = "IGNORE"
            /\ ~HasValid(outcome[i].lines, {"star", "plain"},
                         Spellings("Confidence"), Confidences)
                    => results[i].confidence = "LOW"

\* C19 witness: a reply whose JSON span does not decode has been parsed to
\* ignore, low, with notes taken from the text.
C19_Witness ==
    /\ AgentParsed
    /\ JsonSpans(AgentReplyLines) # {}
    /\ ~JsonDecodes(FirstJson(AgentReplyLines))
    /\ agent_result.direction = "ignore"
    /\ agent_result.confidence = "low"
    /\ agent_result.notes.src \in {"extracted", "fallback", "placeholder"}

\* The greatest length of notes that the bound "400 to 500 characters" allows.
NotesBound == 500

\* C20: the notes (reasoning) of a parsed decision are not empty and not
\* longer than the bound.
C20_NotesBounded ==
    /\ AgentParsed =>
            agent_result.notes.len > 0 /\ agent_result.notes.len <= NotesBound
    /\ \A i \in Tasks :
            Parsed(i) =>
                results[i].reasoning.len > 0 /\ results[i].reasoning.len <= NotesBound

\* C21: while the backend calls of an alert run, and when the decision is
\* returned, the context is the one built at dispatch, every task was
\* created with exactly that context, and neither changes before
\* get_ensemble_decision has returned.
C21_ContextBuiltOnce ==
    /\ [](phase \in {"gathering", "done"} =>
            /\ context # NoContext
            /\ \A i \in Tasks : task_context[i] = context)
    /\ [][phase = "gathering" =>
            context' = context /\ task_context' = task_context]_vars

\* C21 witness: one call has been answered, the next is running, and both
\* tasks hold the context built at dispatch.
C21_Witness ==
    /\ phase = "gathering"
    /\ context = build_context(CHOOSE a \in Alerts : a.ticker = "AMD")
    /\ \E i, j \in Tasks :
        /\ task[i] = "done" /\ outcome[i].kind = "reply"
        /\ task[j] = "calling"
        /\ task_context[i] = context /\ task_context[j] = context

\* C22: get_agent_decision always has a context and reaches the backend call.
C22_ContextAlwaysBuilt ==
    agent_result # NoValue =>
        /\ "exception" \notin DOMAIN agent_context
        /\ agent_outcome # NotCalled

\* C23: the edge label of a context built with a historical prior is
\* POSITIVE iff win rate > 50 and average R:R > 1.2, NEGATIVE iff it is not
\* POSITIVE and win rate < 40, NEUTRAL otherwise.
C23_EdgeLabel ==
    (agent_context # NoValue /\ "edge" \in DOMAIN agent_context /\ agent_context.has_hist) =>
        LET w == agent_context.winrate_pct
            rr == agent_context.avg_rr
            positive == w > 5000 /\ rr # None /\ rr[1] > 120
        IN /\ agent_context.edge = "POSITIVE" <=> positive
           /\ agent_context.edge = "NEGATIVE" <=> (~positive /\ w < 4000)
           /\ agent_context.edge = "NEUTRAL" <=> (~positive /\ w >= 4000)

\* C23 witness: a prior with win rate 50.01 and average R:R exactly 1.2 is
\* labelled NEUTRAL.
C23_Witness ==
    /\ agent_context # NoValue
    /\ "edge" \in DOMAIN agent_context
    /\ agent_context.has_hist
    /\ agent_context.winrate_pct = 5001
    /\ agent_context.avg_rr = Some(120)
    /\ agent_context.edge = "NEUTRAL"

\* The reply has no line that gives a valid direction or a valid confidence.
Unlabelled(lines) ==
    /\ ~HasValid(lines, {"star", "plain"},
                 Spellings("Direction") \cup Spellings("Decision"), Directions)
    /\ ~HasValid(lines, {"star", "plain"}, Spellings("Confidence"), Confidences)

\* The tasks whose backend replied without labels.
UnlabelledTasks == {i \in Tasks : Parsed(i) /\ Unlabelled(outcome[i].lines)}

\* The count of direction d in the breakdown (0 when d is not in it).
BreakdownCount(d) ==
    LET b == final_decision.consensus_breakdown
        ks == {k \in 1..Len(b) : b[k].dir = d}
    IN IF ks = {} THEN 0 ELSE b[CHOOSE k \in ks : TRUE].count

\* C29: a reply without labels is a valid IGNORE/LOW result; it is counted
\* under IGNORE in the breakdown and its weight is in the confidence average;
\* two such replies and one valid LONG vote give the consensus IGNORE.
C29_UnlabelledReplyVotesIgnore ==
    /\ \A i \in UnlabelledTasks :
            /\ i \in ValidTasks
            /\ results[i].direction = "IGNORE"
            /\ results[i].confidence = "LOW"
    /\ (Returned /\ UnlabelledTasks # {}) =>
            /\ final_decision.success
            /\ BreakdownCount("IGNORE") >= Cardinality(UnlabelledTasks)
            /\ final_decision.confidence =
                    confidence_label(ScoreTimesWeightUpTo(Len(models)), WeightUpTo(Len(models)))
            /\ WeightUpTo(Len(models)) >= WeightUpTo(0) +
                    (IF 1 \in UnlabelledTasks THEN models[1].weight ELSE 0) +
                    (IF 2 \in UnlabelledTasks THEN models[2].weight ELSE 0) +
                    (IF 3 \in UnlabelledTasks THEN models[3].weight ELSE 0)
            /\ (Cardinality(UnlabelledTasks) = 2 /\ Votes("LONG") = 1)
                    => final_decision.direction = "IGNORE"

\* C29 witness: gpt-4o voted LONG with HIGH confidence, the other two
\* replied without labels; the consensus is IGNORE with MEDIUM confidence.
C29_Witness ==
    /\ Returned
    /\ UnlabelledTasks = {2, 3}
    /\ 1 \in ValidTasks
    /\ results[1].direction = "LONG" /\ results[1].confidence = "HIGH"
    /\ final_decision.direction = "IGNORE"
    /\ final_decision.confidence = "MEDIUM"

\* C30: a returned decision is a success iff some result is valid; then
\* every count of the breakdown is at least 1, the counts sum to the number
\* of valid results, and no count exceeds that of the consensus direction.
C30_SuccessAndBreakdown ==
    Returned =>
        /\ final_decision.success <=> ValidTasks # {}
        /\ final_decision.success =>
            LET b == final_decision.consensus_breakdown
            IN /\ \A k \in 1..Len(b) : b[k].count >= 1
               /\ \A k \in 1..Len(b) : b[k].count = Votes(b[k].dir)
               /\ SumCounts(b) = Cardinality(ValidTasks)
               /\ \A k \in 1..Len(b) :
                    b[k].count <= BreakdownCount(final_decision.direction)

\* C30 witness: two votes SHORT and one LONG: the breakdown is SHORT 2,
\* LONG 1 and the consensus is SHORT.
C30_Witness ==
    /\ Returned
    /\ final_decision.success
    /\ Cardinality(ValidTasks) = 3
    /\ BreakdownCount("SHORT") = 2
    /\ BreakdownCount("LONG") = 1
    /\ final_decision.direction = "SHORT"

(***************************************************************************)
(* The backtest memory                                                     *)
(***************************************************************************)
LookupKey == <<UpperTicker(bt_call.ticker), StripPattern(bt_call.pattern)>>

StaticHist(key) ==
    [ticker |-> key[1], pattern |-> key[2],
     total_trades |-> BACKTEST_STATS[key].total_trades,
     winrate_pct |-> BACKTEST_STATS[key].winrate_pct,
     avg_rr |-> BACKTEST_STATS[key].avg_rr]

SameStats(app_hist, hist) ==
    /\ app_hist # NoStats
    /\ app_hist.ticker = hist.ticker /\ app_hist.pattern = hist.pattern
    /\ app_hist.trades = hist.total_trades
    /\ app_hist.winrate = hist.winrate_pct
    /\ app_hist.avg_rr = hist.avg_rr

Stored == IF memory_file = NoFile THEN <<>> ELSE memory_file

LookupOrder ==
    bt_call.op = "lookup" =>
        /\ LookupKey \in DOMAIN Stored =>
              /\ bt_call.hist = Stored[LookupKey]
              /\ SameStats(bt_call.app_hist, Stored[LookupKey])
        /\ LookupKey \notin DOMAIN Stored /\ LookupKey \in DOMAIN BACKTEST_STATS =>
              /\ bt_call.hist = StaticHist(LookupKey)
              /\ SameStats(bt_call.app_hist, StaticHist(LookupKey))
        /\ LookupKey \notin DOMAIN Stored /\ LookupKey \notin DOMAIN BACKTEST_STATS =>
              /\ bt_call.hist = NoStats
              /\ bt_call.app_hist = NoStats

\* A lookup that follows an upload which reported statistics for its key.
LookupAfterUpload ==
    /\ bt_call.op = "upload" /\ bt_call'.op = "lookup"
    /\ bt_call.ret.err = "none" /\ "exception" \notin DOMAIN bt_call.ret
    /\ \E i \in 1..Len(bt_call.ret.out) :
          <<bt_call.ret.out[i].ticker, bt_call.ret.out[i].pattern>> = LookupKey'

\* C24: a lookup returns the dynamic-memory record of its key when there is
\* one, else the static prior, else nothing; a lookup after a successful
\* upload that contained its key returns the statistics of that upload,
\* also where a static prior exists.
C24_DynamicBeforeStatic ==
    /\ []LookupOrder
    /\ [][LookupAfterUpload =>
            \E i \in 1..Len(bt_call.ret.out) :
                /\ bt_call'.hist = bt_call.ret.out[i]
                /\ SameStats(bt_call'.app_hist, bt_call.ret.out[i])]_vars

ErrorCodes == {"bad_json", "invalid_json_structure", "bad_csv", "no_rows"}

UploadKeys(call) ==
    {row_key(call.body.rows[i], call.ticker_hint) : i \in 1..Len(call.body.rows)}

RECURSIVE SumOver(_, _)
SumOver(S, q) ==
    IF S = {} THEN 0
    ELSE LET i == CHOOSE i \in S : TRUE IN q[i] + SumOver(S \ {i}, q)

\* The statistics of one key counted from the rows of one upload.
StatsAlone(call, key) ==
    LET rows == call.body.rows
        idx == {i \in 1..Len(rows) : row_key(rows[i], call.ticker_hint) = key}
        won == {i \in idx : row_pl(rows[i]) # None /\ row_pl(rows[i])[1] > 0}
        lost == {i \in idx : row_pl(rows[i]) # None /\ row_pl(rows[i])[1] < 0}
        rated == {i \in idx : row_rr(rows[i]) # None}
        rr == [i \in 1..Len(rows) |-> IF i \in rated THEN row_rr(rows[i])[1] ELSE 0]
    IN  [ticker |-> key[1], pattern |-> key[2],
         total_trades |-> Cardinality(idx),
         wins |-> Cardinality(won), losses |-> Cardinality(lost),
         winrate_pct |-> RoundDiv(Cardinality(won) * 10000, Cardinality(idx)),
         avg_rr |-> IF rated = {} THEN None
                    ELSE Some(RoundDiv(SumOver(rated, rr), Cardinality(rated)))]

UploadStep ==
    LET call == bt_call'
        old == IF memory_file = NoFile THEN <<>> ELSE memory_file
        new == IF memory_file' = NoFile THEN <<>> ELSE memory_file'
    IN  call.op = "upload" =>
          /\ call.ret.err \in ErrorCodes => memory_file' = memory_file
          /\ call.ret.err = "none" /\ "exception" \notin DOMAIN call.ret =>
                /\ DOMAIN new = DOMAIN old \cup UploadKeys(call)
                /\ \A key \in UploadKeys(call) : new[key] = StatsAlone(call, key)
                /\ \A key \in DOMAIN old \ UploadKeys(call) : new[key] = old[key]

\* C28: an upload that returns an error leaves the memory as it was; a
\* successful one replaces the records of exactly the keys among its rows
\* with statistics counted from those rows alone and leaves every other
\* key's record unchanged.
C28_UploadReplacesItsKeys == [][UploadStep]_vars

(***************************************************************************)
(* Market hours                                                            *)
(***************************************************************************)
\* A weekday between 09:30:00 and 16:00:00, both included.
InHours(call) ==
    /\ weekday(call.day) \in 0..4
    /\ HMS(9, 30, 0) <= call.time /\ call.time <= HMS(16, 0, 0)

FirstInHoursOfDay(k) ==
    /\ InHours(mh_log[k])
    /\ \A j \in 1..(k - 1) : ~(mh_log[j].day = mh_log[k].day /\ InHours(mh_log[j]))

\* C25: over calls with non-decreasing timestamps, on each day exactly the
\* first call within market hours returns TRADING_BOT_STARTED, the later
\* in-hours calls of that day return WITHIN_MARKET_HOURS, and a call outside
\* market hours returns OUTSIDE_MARKET_HOURS and does not mark the bot started.
C25_StartedOncePerDay ==
    \A k \in 1..Len(mh_log) :
        /\ mh_log[k].status =
              IF FirstInHoursOfDay(k) THEN "TRADING_BOT_STARTED"
              ELSE IF InHours(mh_log[k]) THEN "WITHIN_MARKET_HOURS"
              ELSE "OUTSIDE_MARKET_HOURS"
        /\ ~InHours(mh_log[k]) /\ mh_log[k].started =>
              /\ k > 1
              /\ mh_log[k - 1].started
              /\ mh_log[k - 1].day = mh_log[k].day

\* A start, a later call at the closing second of the same day, and a
\* start again on the next day.
C25_Witness ==
    /\ Len(mh_log) = 3
    /\ mh_log[1].status = "TRADING_BOT_STARTED"
    /\ mh_log[2].status = "WITHIN_MARKET_HOURS"
    /\ mh_log[2].time = market_close_time
    /\ mh_log[3].status = "TRADING_BOT_STARTED"
    /\ mh_log[3].day = mh_log[1].day + 1

\* C26: the monitor sends a notification in an iteration exactly when the
\* state it observes differs from the state of the previous iteration,
\* never on the first observation; the message says opened when the new
\* state is open and closed otherwise.
C26_NotifyOnChangeOnly ==
    \A k \in 1..Len(mon_log) :
        /\ mon_log[k].sent # "none" <=> (k > 1 /\ mon_log[k].state # mon_log[k - 1].state)
        /\ mon_log[k].sent # "none" =>
              mon_log[k].sent = IF mon_log[k].state THEN "MARKET OPENED" ELSE "MARKET CLOSED"

\* Closed, then open, then closed again: both messages were sent.
C26_Witness ==
    /\ Len(mon_log) = 3
    /\ mon_log[1].sent = "none"
    /\ mon_log[2].sent = "MARKET OPENED"
    /\ mon_log[3].sent = "MARKET CLOSED"

\* C27: when finding out whether the market is open fails with an error,
\* is_market_open does not report open and production mode does not start
\* the application.
C27_FailureIsNotOpen ==
    prod_check # NoValue /\ prod_check.obs.fails =>
        /\ ~prod_check.open
        /\ prod_pc # "running"

====
